---- MODULE Spec2Model ----
(***************************************************************************)
(* Model of .github/scripts/review.js (the revision at lines 196-432):     *)
(* the diff parser parseDiffAndAddLineNumbers, postReview and run.         *)
(* Text is modelled as a sequence of one-character strings, so that        *)
(* startsWith, split, substring, the regular expressions and parseInt are  *)
(* computed the way the JavaScript computes them.                          *)
(***************************************************************************)
EXTENDS Integers, Sequences, FiniteSets, TLC

VARIABLES pc, apiKey, githubToken, prDiff, lines, idx, currentFile,
          currentLine, numberedContent, emittedAt, numberedDiff, prompt,
          responseText, reviewData, calls, posted, failed, thrown

vars == <<pc, apiKey, githubToken, prDiff, lines, idx, currentFile,
          currentLine, numberedContent, emittedAt, numberedDiff, prompt,
          responseText, reviewData, calls, posted, failed, thrown>>

parseVars == <<lines, idx, currentFile, currentLine, numberedContent,
               emittedAt>>

(***************************************************************************)
(* Bounds of the model.                                                    *)
(***************************************************************************)
MaxLines == 4

MaxFindings == 2

MaxReparseLines == 3

MaxCommentLen == 6

MaxPromptLines == 3

(***************************************************************************)
(* JavaScript values: every value is a record with its type.               *)
(***************************************************************************)
Undefined == [type |-> "undefined"]

Null == [type |-> "null"]

Str(s) == [type |-> "string", val |-> s]

Num(n) == [type |-> "number", val |-> n]

Arr(items) == [type |-> "array", val |-> items]

\* !v is false
Truthy(v) ==
  CASE v.type \in {"undefined", "null"} -> FALSE
    [] v.type = "string" -> v.val # <<>>
    [] v.type = "number" -> v.val # 0
    [] OTHER -> TRUE

(***************************************************************************)
(* String primitives of JavaScript used by the script.                     *)
(***************************************************************************)
NL == "\n"

\* The backtick and the robot emoji, each one character of the text.
Backtick == "backtick"

Robot == "robot"

StartsWith(s, p) == Len(s) >= Len(p) /\ SubSeq(s, 1, Len(p)) = p

Substring(s, from) == SubSeq(s, from + 1, Len(s))

\* The parts of s from position k on: one part up to each separator and
\* one after the last.
RECURSIVE SplitFrom(_, _, _)
SplitFrom(s, sep, k) ==
  LET seps == {j \in k..Len(s) : s[j] = sep}
  IN IF seps = {} THEN <<SubSeq(s, k, Len(s))>>
     ELSE LET j == CHOOSE m \in seps : \A n \in seps : m <= n
          IN <<SubSeq(s, k, j - 1)>> \o SplitFrom(s, sep, j + 1)

Split(s, sep) == SplitFrom(s, sep, 1)

RECURSIVE Join(_, _)
Join(parts, sep) ==
  IF Len(parts) = 0 THEN <<>>
  ELSE IF Len(parts) = 1 THEN parts[1]
  ELSE parts[1] \o <<sep>> \o Join(Tail(parts), sep)

Digits == <<"0", "1", "2", "3", "4", "5", "6", "7", "8", "9">>

IsDigit(c) == \E d \in 1..10 : Digits[d] = c

DigitVal(c) == (CHOOSE d \in 1..10 : Digits[d] = c) - 1

RECURSIVE ParseInt(_)
ParseInt(ds) ==
  IF Len(ds) = 0 THEN 0
  ELSE 10 * ParseInt(SubSeq(ds, 1, Len(ds) - 1)) + DigitVal(ds[Len(ds)])

RECURSIVE ToDecimal(_)
ToDecimal(n) ==
  IF n < 10 THEN <<Digits[n + 1]>>
  ELSE Append(ToDecimal(n \div 10), Digits[(n % 10) + 1])

RECURSIVE TakeDigits(_, _)
TakeDigits(s, k) ==
  IF k <= Len(s) /\ IsDigit(s[k]) THEN <<s[k]>> \o TakeDigits(s, k + 1)
  ELSE <<>>

\* line.match(/\+(\d+)/): capture group 1 of the leftmost match, <<>> when
\* the match is null.
MatchPlusDigits(line) ==
  LET starts == {k \in 1..Len(line) :
                   line[k] = "+" /\ k < Len(line) /\ IsDigit(line[k + 1])}
  IN IF starts = {} THEN <<>>
     ELSE LET k == CHOOSE m \in starts : \A n \in starts : m <= n
          IN TakeDigits(line, k + 1)

\* parts.find(p => p.startsWith('b/')): the first such token, <<>> when
\* find returns undefined.
FindBPath(parts) ==
  LET hits == {k \in 1..Len(parts) : StartsWith(parts[k], <<"b", "/">>)}
  IN IF hits = {} THEN <<>>
     ELSE parts[CHOOSE m \in hits : \A n \in hits : m <= n]

(***************************************************************************)
(* parseDiffAndAddLineNumbers, one loop iteration at a time.  The parser   *)
(* state is the record st of the function's local variables; emittedAt is  *)
(* a history of the index of the input line each pushed entry came from.   *)
(***************************************************************************)
DiffGit == <<"d", "i", "f", "f", " ", "-", "-", "g", "i", "t">>

\* Mutant of InitParse: currentFile and currentLine live outside the
\* function and keep the values the previous call left.
InitParse_Stale ==
  [currentFile |-> currentFile, currentLine |-> currentLine,
   numberedContent |-> <<>>, emittedAt |-> <<>>]

InitParse ==
  [currentFile |-> <<>>, currentLine |-> 0, numberedContent |-> <<>>,
   emittedAt |-> <<>>]

IsFileHeader(line) == StartsWith(line, DiffGit)

IsChunkHeader(line) == StartsWith(line, <<"@", "@">>)

HandleFileHeader(st, line) ==
  LET bPath == FindBPath(Split(line, " "))
  IN IF bPath # <<>>
     THEN [st EXCEPT !.currentFile = Substring(bPath, 2)]
     ELSE st

HandleChunkHeader(st, line) ==
  LET match == MatchPlusDigits(line)
  IN IF match # <<>>
     THEN [st EXCEPT !.currentLine = ParseInt(match)]
     ELSE st

Entry(st, line) ==
  [file |-> st.currentFile, lineNumber |-> st.currentLine,
   content |-> Substring(line, 1)]

\* Mutant of Push: the counter is advanced before the entry is built.
Push_IncrementFirst(st, line, j) ==
  [st EXCEPT !.numberedContent =
               Append(@, [Entry(st, line) EXCEPT !.lineNumber = @ + 1]),
             !.emittedAt = Append(@, j),
             !.currentLine = @ + 1]

Push(st, line, j) ==
  [st EXCEPT !.numberedContent = Append(@, Entry(st, line)),
             !.emittedAt = Append(@, j),
             !.currentLine = @ + 1]

\* Mutant of HandleContent: a removed line advances the counter.
HandleContent_RemovedAdvances(st, line, j) ==
  IF st.currentFile # <<>>
  THEN IF StartsWith(line, <<"+">>) /\ ~StartsWith(line, <<"+", "+", "+">>)
       THEN Push(st, line, j)
       ELSE IF StartsWith(line, <<" ">>)
       THEN Push(st, line, j)
       ELSE IF StartsWith(line, <<"-">>)
       THEN [st EXCEPT !.currentLine = @ + 1]
       ELSE st
  ELSE st

\* Mutant of HandleContent: the test of currentFile is missing.
HandleContent_NoFileGuard(st, line, j) ==
  IF StartsWith(line, <<"+">>) /\ ~StartsWith(line, <<"+", "+", "+">>)
  THEN Push(st, line, j)
  ELSE IF StartsWith(line, <<" ">>)
  THEN Push(st, line, j)
  ELSE st

HandleContent(st, line, j) ==
  IF st.currentFile # <<>>
  THEN IF StartsWith(line, <<"+">>) /\ ~StartsWith(line, <<"+", "+", "+">>)
       THEN Push(st, line, j)
       ELSE IF StartsWith(line, <<" ">>)
       THEN Push(st, line, j)
       ELSE st
  ELSE st

ProcessLine(st, line, j) ==
  IF IsFileHeader(line) THEN HandleFileHeader(st, line)
  ELSE IF IsChunkHeader(line) THEN HandleChunkHeader(st, line)
  ELSE HandleContent(st, line, j)

RECURSIVE ParseFrom(_, _, _)
ParseFrom(st, ls, j) ==
  IF j > Len(ls) THEN st
  ELSE ParseFrom(ProcessLine(st, ls[j], j), ls, j + 1)

ParseAll(ls) == ParseFrom(InitParse, ls, 1)

\* The template "${currentFile}:${currentLine}: ${line.substring(1)}".
Render(e) == e.file \o <<":">> \o ToDecimal(e.lineNumber) \o <<":", " ">>
             \o e.content

RECURSIVE RenderAll(_)
RenderAll(es) ==
  IF Len(es) = 0 THEN <<>> ELSE <<Render(es[1])>> \o RenderAll(Tail(es))

\* numberedContent.join('\n')
NumberedText(es) == Join(RenderAll(es), NL)

(***************************************************************************)
(* Input diffs: texts made of at most MaxLines lines of DiffLines, joined  *)
(* by newlines.                                                            *)
(***************************************************************************)
HeaderF == DiffGit \o <<" ", "a", "/", "f", " ", "b", "/", "f">>

HeaderSpace ==
  DiffGit \o <<" ", "a", "/", "g", " ", "h", " ", "b", "/", "g", " ", "h">>

HeaderNoPrefix == DiffGit \o <<" ", "h", " ", "h">>

Chunk1 ==
  <<"@", "@", " ", "-", "1", ",", "3", " ", "+", "1", ",", "4", " ", "@", "@">>

Chunk12 ==
  <<"@", "@", " ", "-", "8", ",", "2", " ", "+", "1", "2", ",", "3", " ",
    "@", "@">>

Chunk0 ==
  <<"@", "@", " ", "-", "1", ",", "2", " ", "+", "0", ",", "0", " ", "@", "@">>

BinaryMarker == <<"B", "i", "n", "a", "r", "y">>

AddedX == <<"+", "x">>

AddedPlusPlus == <<"+", "+", "+", "i">>

ContextY == <<" ", "y">>

RemovedZ == <<"-", "z">>

DiffLines ==
  {HeaderF, HeaderSpace, HeaderNoPrefix, Chunk1, Chunk12, Chunk0,
   BinaryMarker, AddedX, AddedPlusPlus, ContextY, RemovedZ}

LineSeqs == UNION {[1..n -> DiffLines] : n \in 1..MaxLines}

DiffTexts == {Join(ls, NL) : ls \in LineSeqs}

(***************************************************************************)
(* The parser run on its own, one loop iteration per step.                 *)
(***************************************************************************)
ParseState ==
  [currentFile |-> currentFile, currentLine |-> currentLine,
   numberedContent |-> numberedContent, emittedAt |-> emittedAt]

SetParseState(st) ==
  /\ currentFile' = st.currentFile
  /\ currentLine' = st.currentLine
  /\ numberedContent' = st.numberedContent
  /\ emittedAt' = st.emittedAt

runVars == <<apiKey, githubToken, prompt, responseText, reviewData, calls,
             posted, failed, thrown>>

InitParser ==
  /\ pc = "parse"
  /\ prDiff \in DiffTexts
  /\ lines = Split(prDiff, NL)
  /\ idx = 1
  /\ currentFile = <<>>
  /\ currentLine = 0
  /\ numberedContent = <<>>
  /\ emittedAt = <<>>
  /\ numberedDiff = <<>>
  /\ apiKey = Str(<<"k">>)
  /\ githubToken = Str(<<"t">>)
  /\ prompt = Undefined
  /\ responseText = Undefined
  /\ reviewData = Undefined
  /\ calls = <<>>
  /\ posted = <<>>
  /\ failed = 0
  /\ thrown = <<>>

LoopFileHeader ==
  /\ pc \in {"parse", "reparse"} /\ idx <= Len(lines)
  /\ IsFileHeader(lines[idx])
  /\ SetParseState(ProcessLine(ParseState, lines[idx], idx))
  /\ idx' = idx + 1
  /\ UNCHANGED <<pc, prDiff, lines, numberedDiff, runVars>>

LoopChunkHeader ==
  /\ pc \in {"parse", "reparse"} /\ idx <= Len(lines)
  /\ ~IsFileHeader(lines[idx]) /\ IsChunkHeader(lines[idx])
  /\ SetParseState(ProcessLine(ParseState, lines[idx], idx))
  /\ idx' = idx + 1
  /\ UNCHANGED <<pc, prDiff, lines, numberedDiff, runVars>>

LoopContent ==
  /\ pc \in {"parse", "reparse"} /\ idx <= Len(lines)
  /\ ~IsFileHeader(lines[idx]) /\ ~IsChunkHeader(lines[idx])
  /\ SetParseState(ProcessLine(ParseState, lines[idx], idx))
  /\ idx' = idx + 1
  /\ UNCHANGED <<pc, prDiff, lines, numberedDiff, runVars>>

ParseReturn ==
  /\ pc = "parse" /\ idx > Len(lines)
  /\ numberedDiff' = NumberedText(numberedContent)
  /\ pc' = "parsed"
  /\ UNCHANGED <<prDiff, parseVars, runVars>>

NextParser == LoopFileHeader \/ LoopChunkHeader \/ LoopContent \/ ParseReturn

SpecParser == InitParser /\ [][NextParser]_vars

(***************************************************************************)
(* The parser called a second time on the same text: each call declares    *)
(* its locals anew (261-263) and the script has no variable at module      *)
(* level but CONFIG.  numberedDiff keeps what the first call returned.     *)
(***************************************************************************)
InitReparse == InitParser /\ Len(lines) <= MaxReparseLines

ParseAgain ==
  /\ pc = "parsed"
  /\ SetParseState(InitParse)
  /\ idx' = 1
  /\ pc' = "reparse"
  /\ UNCHANGED <<prDiff, lines, numberedDiff, runVars>>

ReparseReturn ==
  /\ pc = "reparse" /\ idx > Len(lines)
  /\ pc' = "reparsed"
  /\ UNCHANGED <<prDiff, parseVars, numberedDiff, runVars>>

NextReparse == NextParser \/ ParseAgain \/ ReparseReturn

SpecReparse == InitReparse /\ [][NextReparse]_vars

(***************************************************************************)
(* createPrompt: the two interpolated sections of the template.            *)
(***************************************************************************)
diffLimit == 40000

\* Mutant of Slice: the last characters are kept and a prefix is dropped.
Slice_KeepsTail(s, from, to) ==
  SubSeq(s, IF to < Len(s) THEN Len(s) - to + 1 ELSE 1, Len(s))

Slice(s, from, to) ==
  SubSeq(s, from + 1, IF to < Len(s) THEN to ELSE Len(s))

CreatePrompt(rules, numbered) ==
  [type |-> "prompt", rules |-> rules, code |-> Slice(numbered, 0, diffLimit)]

(***************************************************************************)
(* postReview.                                                             *)
(***************************************************************************)
Approve == <<"A", "P", "P", "R", "O", "V", "E">>

Comment == <<"C", "O", "M", "M", "E", "N", "T">>

RequestChanges ==
  <<"R", "E", "Q", "U", "E", "S", "T", "_", "C", "H", "A", "N", "G", "E", "S">>

\* v.reviews and v.conclusion; reading a property of null or undefined
\* throws a TypeError, which the callers test with CanRead first.
CanRead(v) == v.type \notin {"undefined", "null"}

ReviewsOf(v) == IF v.type = "object" THEN v.reviews ELSE Undefined

ConclusionOf(v) == IF v.type = "object" THEN v.conclusion ELSE Undefined

\* v.length === 0
LengthIsZero(v) == v.type \in {"array", "string"} /\ Len(v.val) = 0

\* r.line > 0
\* Mutant of LinePositive: a finding at line 0 passes the filter.
LinePositive_OrZero(r) == r.line.type = "number" /\ r.line.val >= 0

LinePositive(r) == r.line.type = "number" /\ r.line.val > 0

Keywords ==
  << <<"i", "f">>, <<"f", "o", "r">>, <<"s", "w", "i", "t", "c", "h">>,
     <<"l", "e", "t">>, <<"c", "a", "s", "e">>,
     <<"d", "e", "f", "a", "u", "l", "t">>, <<"e", "l", "s", "e">>,
     <<"e", "m", "p", "t", "y">> >>

\* The alternative of /(@(if|for|switch|let|case|default|else|empty))/ that
\* matches at position k of s, 0 when none does.
KeywordAt(s, k) ==
  LET hits == {w \in 1..Len(Keywords) :
                 /\ s[k] = "@"
                 /\ k + Len(Keywords[w]) <= Len(s)
                 /\ SubSeq(s, k + 1, k + Len(Keywords[w])) = Keywords[w]}
  IN IF hits = {} THEN 0 ELSE CHOOSE m \in hits : \A n \in hits : m <= n

\* s.replace(/(@(...))/g, "BACKTICK$1BACKTICK") from position k on.
RECURSIVE ReplaceFrom(_, _)
ReplaceFrom(s, k) ==
  IF k > Len(s) THEN <<>>
  ELSE LET w == KeywordAt(s, k)
       IN IF w = 0 THEN <<s[k]>> \o ReplaceFrom(s, k + 1)
          ELSE <<Backtick, "@">> \o Keywords[w] \o <<Backtick>>
               \o ReplaceFrom(s, k + 1 + Len(Keywords[w]))

SafeComment(s) == ReplaceFrom(s, 1)

BodyPrefix ==
  <<Robot, " ", "*", "*", "A", "I", " ", "R", "e", "v", "i", "e", "w", ":",
    "*", "*", " ">>

Fence == <<Backtick, Backtick, Backtick>>

TypeScript == <<"t", "y", "p", "e", "s", "c", "r", "i", "p", "t">>

ToText(v) ==
  IF v.type = "string" THEN v.val
  ELSE <<"u", "n", "d", "e", "f", "i", "n", "e", "d">>

ReviewComment(r) ==
  [path |-> r.path, line |-> r.line,
   body |-> BodyPrefix \o SafeComment(r.comment.val) \o <<NL, NL>> \o Fence
            \o TypeScript \o <<NL>> \o ToText(r.snippet) \o <<NL>> \o Fence]

RECURSIVE MapComments(_)
MapComments(rs) ==
  IF Len(rs) = 0 THEN <<>>
  ELSE <<ReviewComment(rs[1])>> \o MapComments(Tail(rs))

\* The synchronous part of postReview(octokit, context, reviewData): whether
\* it throws a TypeError, and otherwise the comments it builds; createReview
\* is called when they are not empty.
PostReviewThrows(rd) ==
  IF ~CanRead(rd) THEN TRUE
  ELSE LET reviews == ReviewsOf(rd)
       IN IF ~Truthy(reviews) THEN FALSE
          ELSE IF LengthIsZero(reviews) THEN FALSE
          ELSE IF reviews.type # "array" THEN TRUE
          ELSE IF \E k \in 1..Len(reviews.val) : ~CanRead(reviews.val[k])
          THEN TRUE
          ELSE \E k \in 1..Len(reviews.val) :
                 IF LinePositive(reviews.val[k])
                 THEN reviews.val[k].comment.type # "string"
                 ELSE FALSE

ValidComments(rd) ==
  LET reviews == ReviewsOf(rd)
  IN IF ~Truthy(reviews) THEN <<>>
     ELSE IF LengthIsZero(reviews) THEN <<>>
     ELSE MapComments(SelectSeq(reviews.val, LinePositive))

ReviewBody(rd) ==
  IF ConclusionOf(rd) = Str(Approve) THEN "Code looks good."
  ELSE "Violations found. Please fix the issues below."

\* Mutant of CreateReviewCall: the event is the one the first revision
\* sent, COMMENT for APPROVE and REQUEST_CHANGES for everything else.
CreateReviewCall_EventRemapped(rd) ==
  [event |-> IF ConclusionOf(rd) = Str(Approve)
             THEN Str(Comment) ELSE Str(RequestChanges),
   comments |-> ValidComments(rd), body |-> ReviewBody(rd)]

CreateReviewCall(rd) ==
  [event |-> ConclusionOf(rd), comments |-> ValidComments(rd),
   body |-> ReviewBody(rd)]

(***************************************************************************)
(* run: one step per await, the external calls settling in between.        *)
(***************************************************************************)
\* Mutant of CredentialsOk: only the API key is tested.
CredentialsOk_OnlyApiKey(key, token) == Truthy(key)

\* !(!apiKey || !githubToken)
CredentialsOk(key, token) == Truthy(key) /\ Truthy(token)

\* Mutant of NoDiff: the fetched diff is never taken for empty.
NoDiff_Never(d) == FALSE

\* if (!prDiff): the empty string is the only falsy diff text.
NoDiff(d) == ~Truthy(Str(d))

\* Mutant of FailedAfterJsonError: the parse error is reported as a failure.
FailedAfterJsonError_SetFailed(f) == f + 1

\* The inner catch logs the response and returns: setFailed is not called.
FailedAfterJsonError(f) == f

\* Mutant of FailedAfterCatch: the caught error is logged and dropped.
FailedAfterCatch_Swallowed(f) == f

\* The outer catch: core.setFailed("Review failed: ...").
FailedAfterCatch(f) == f + 1

\* if (reviewData.conclusion === "REQUEST_CHANGES") core.setFailed(...)
FailedAfterConclusion(rd, f) ==
  IF ConclusionOf(rd) = Str(RequestChanges) THEN f + 1 ELSE f

EnvValues == {Undefined, Str(<<>>), Str(<<"k">>)}

\* The limit the prompt names for the length of a line of code.
MaxLineLength == 80

\* An added line whose content is one character over the limit.
AddedLong == <<"+">> \o [i \in 1..(MaxLineLength + 1) |-> "w"]

RunDiffs ==
  {Join(<<HeaderF, Chunk1, AddedX, ContextY>>, NL),
   Join(<<HeaderF, Chunk12, RemovedZ, AddedX>>, NL),
   Join(<<Chunk1, AddedX>>, NL),
   Join(<<HeaderF, Chunk1, AddedLong>>, NL)}

\* What pulls.get may answer: a diff, or the empty text of a pull request
\* without changes.
FetchedDiffs == RunDiffs \cup {<<>>}

RuleTexts == {<<>>, <<"R">>}

Paths == {Str(<<"f">>), Str(<<"q">>)}

LineValues == {Num(0), Num(1), Num(7)}

CommentValues == {Undefined, Str(<<"u", "s", "e", " ", "@", "i", "f">>)}

Findings ==
  [type : {"object"}, path : Paths, line : LineValues,
   comment : CommentValues, snippet : {Str(<<"x">>)}]

FindingSeqs == UNION {[1..n -> Findings \cup {Null}] : n \in 0..MaxFindings}

ReviewsValues ==
  {Undefined, Null, Str(<<"a", "b">>), Num(5)}
    \cup {Arr(fs) : fs \in FindingSeqs}

Conclusions == {Str(Approve), Str(Comment), Str(RequestChanges), Undefined}

JsonValues ==
  {Null, Num(5)}
    \cup [type : {"object"}, reviews : ReviewsValues,
          conclusion : Conclusions]

\* A response text is valid JSON for a value, or it is not JSON.
JsonTexts == [type : {"text"}, json : {TRUE}, value : JsonValues]

GarbageTexts == [type : {"text"}, json : {FALSE}, value : {Undefined}]

Init ==
  /\ pc = "start"
  /\ apiKey \in EnvValues
  /\ githubToken \in EnvValues
  /\ prDiff = <<>>
  /\ lines = <<>>
  /\ idx = 1
  /\ currentFile = <<>>
  /\ currentLine = 0
  /\ numberedContent = <<>>
  /\ emittedAt = <<>>
  /\ numberedDiff = <<>>
  /\ prompt = Undefined
  /\ responseText = Undefined
  /\ reviewData = Undefined
  /\ calls = <<>>
  /\ posted = <<>>
  /\ failed = 0
  /\ thrown = <<>>

MissingCredentials ==
  /\ pc = "start"
  /\ ~CredentialsOk(apiKey, githubToken)
  /\ failed' = failed + 1
  /\ pc' = "done"
  /\ UNCHANGED <<apiKey, githubToken, prDiff, parseVars, numberedDiff,
                 prompt, responseText, reviewData, calls, posted, thrown>>

FetchDiff ==
  /\ pc = "start"
  /\ CredentialsOk(apiKey, githubToken)
  /\ calls' = Append(calls, "pulls.get")
  /\ pc' = "awaitDiff"
  /\ UNCHANGED <<apiKey, githubToken, prDiff, parseVars, numberedDiff,
                 prompt, responseText, reviewData, posted, failed, thrown>>

DiffFails ==
  /\ pc = "awaitDiff"
  /\ thrown' = Append(thrown, "pulls.get")
  /\ failed' = FailedAfterCatch(failed)
  /\ pc' = "done"
  /\ UNCHANGED <<apiKey, githubToken, prDiff, parseVars, numberedDiff,
                 prompt, responseText, reviewData, calls, posted>>

DiffEmpty ==
  /\ pc = "awaitDiff"
  /\ \E d \in FetchedDiffs : NoDiff(d) /\ prDiff' = d
  /\ pc' = "done"
  /\ UNCHANGED <<apiKey, githubToken, parseVars, numberedDiff, prompt,
                 responseText, reviewData, calls, posted, failed, thrown>>

DiffArrives ==
  /\ pc = "awaitDiff"
  /\ \E d \in FetchedDiffs, rules \in RuleTexts :
       LET st == ParseAll(Split(d, NL))
       IN /\ ~NoDiff(d)
          /\ prDiff' = d
          /\ lines' = Split(d, NL)
          /\ idx' = Len(Split(d, NL)) + 1
          /\ SetParseState(st)
          /\ numberedDiff' = NumberedText(st.numberedContent)
          /\ prompt' = CreatePrompt(rules, NumberedText(st.numberedContent))
  /\ calls' = Append(calls, "generateContent")
  /\ pc' = "awaitModel"
  /\ UNCHANGED <<apiKey, githubToken, responseText, reviewData, posted,
                 failed, thrown>>

\* Mutant of ModelFails: the rejected reviewer call is made again.
ModelFails_Retries ==
  /\ pc = "awaitModel"
  /\ Len(calls) < 4
  /\ thrown' = Append(thrown, "generateContent")
  /\ calls' = Append(calls, "generateContent")
  /\ UNCHANGED <<pc, apiKey, githubToken, prDiff, parseVars, numberedDiff,
                 prompt, responseText, reviewData, posted, failed>>

ModelFails ==
  /\ pc = "awaitModel"
  /\ thrown' = Append(thrown, "generateContent")
  /\ failed' = FailedAfterCatch(failed)
  /\ pc' = "done"
  /\ UNCHANGED <<apiKey, githubToken, prDiff, parseVars, numberedDiff,
                 prompt, responseText, reviewData, calls, posted>>

ResponseNotJson ==
  /\ pc = "awaitModel"
  /\ \E t \in GarbageTexts : responseText' = t
  /\ thrown' = Append(thrown, "SyntaxError")
  /\ failed' = FailedAfterJsonError(failed)
  /\ pc' = "done"
  /\ UNCHANGED <<apiKey, githubToken, prDiff, parseVars, numberedDiff,
                 prompt, reviewData, calls, posted>>

ReviewThrows ==
  /\ pc = "awaitModel"
  /\ \E t \in JsonTexts :
       /\ PostReviewThrows(t.value)
       /\ responseText' = t
       /\ reviewData' = t.value
  /\ thrown' = Append(thrown, "TypeError")
  /\ failed' = FailedAfterCatch(failed)
  /\ pc' = "done"
  /\ UNCHANGED <<apiKey, githubToken, prDiff, parseVars, numberedDiff,
                 prompt, calls, posted>>

ReviewNothingToPost ==
  /\ pc = "awaitModel"
  /\ \E t \in JsonTexts :
       /\ ~PostReviewThrows(t.value)
       /\ Len(ValidComments(t.value)) = 0
       /\ responseText' = t
       /\ reviewData' = t.value
       /\ failed' = FailedAfterConclusion(t.value, failed)
  /\ pc' = "done"
  /\ UNCHANGED <<apiKey, githubToken, prDiff, parseVars, numberedDiff,
                 prompt, calls, posted, thrown>>

ReviewPosts ==
  /\ pc = "awaitModel"
  /\ \E t \in JsonTexts :
       /\ ~PostReviewThrows(t.value)
       /\ Len(ValidComments(t.value)) > 0
       /\ responseText' = t
       /\ reviewData' = t.value
       /\ posted' = Append(posted, CreateReviewCall(t.value))
  /\ calls' = Append(calls, "createReview")
  /\ pc' = "awaitPost"
  /\ UNCHANGED <<apiKey, githubToken, prDiff, parseVars, numberedDiff,
                 prompt, failed, thrown>>

\* Mutant of PostFails: the rejection of createReview is not caught and
\* leaves run.
PostFails_Escapes ==
  /\ pc = "awaitPost"
  /\ thrown' = Append(thrown, "createReview")
  /\ pc' = "crashed"
  /\ UNCHANGED <<apiKey, githubToken, prDiff, parseVars, numberedDiff,
                 prompt, responseText, reviewData, calls, posted, failed>>

PostFails ==
  /\ pc = "awaitPost"
  /\ thrown' = Append(thrown, "createReview")
  /\ failed' = FailedAfterCatch(failed)
  /\ pc' = "done"
  /\ UNCHANGED <<apiKey, githubToken, prDiff, parseVars, numberedDiff,
                 prompt, responseText, reviewData, calls, posted>>

PostSucceeds ==
  /\ pc = "awaitPost"
  /\ failed' = FailedAfterConclusion(reviewData, failed)
  /\ pc' = "done"
  /\ UNCHANGED <<apiKey, githubToken, prDiff, parseVars, numberedDiff,
                 prompt, responseText, reviewData, calls, posted, thrown>>

Next ==
  \/ MissingCredentials \/ FetchDiff
  \/ DiffFails \/ DiffEmpty \/ DiffArrives
  \/ ModelFails \/ ResponseNotJson
  \/ ReviewThrows \/ ReviewNothingToPost \/ ReviewPosts
  \/ PostFails \/ PostSucceeds

Spec == Init /\ [][Next]_vars

(***************************************************************************)
(* postReview on one finding whose comment is any text of at most          *)
(* MaxCommentLen characters of CommentChars: the run has fetched and       *)
(* parsed a diff and awaits the reviewer.                                  *)
(***************************************************************************)
CommentChars == {Backtick, "@", "i", "f", " "}

CommentTexts == UNION {[1..n -> CommentChars] : n \in 0..MaxCommentLen}

CommentResponses ==
  [type : {"text"}, json : {TRUE},
   value : [type : {"object"},
            reviews : {Arr(<<[type |-> "object", path |-> Str(<<"f">>),
                              line |-> Num(1), comment |-> Str(c),
                              snippet |-> Str(<<"@", "i", "f">>)]>>) :
                         c \in CommentTexts},
            conclusion : {Str(RequestChanges)}]]

InitComment ==
  LET d == Join(<<HeaderF, Chunk1, AddedX, ContextY>>, NL)
      st == ParseAll(Split(d, NL))
  IN /\ pc = "awaitModel"
     /\ apiKey = Str(<<"k">>)
     /\ githubToken = Str(<<"t">>)
     /\ prDiff = d
     /\ lines = Split(d, NL)
     /\ idx = Len(Split(d, NL)) + 1
     /\ currentFile = st.currentFile
     /\ currentLine = st.currentLine
     /\ numberedContent = st.numberedContent
     /\ emittedAt = st.emittedAt
     /\ numberedDiff = NumberedText(st.numberedContent)
     /\ prompt = CreatePrompt(<<>>, NumberedText(st.numberedContent))
     /\ responseText = Undefined
     /\ reviewData = Undefined
     /\ calls = <<"pulls.get", "generateContent">>
     /\ posted = <<>>
     /\ failed = 0
     /\ thrown = <<>>

CommentPosts ==
  /\ pc = "awaitModel"
  /\ \E t \in CommentResponses :
       /\ ~PostReviewThrows(t.value)
       /\ Len(ValidComments(t.value)) > 0
       /\ responseText' = t
       /\ reviewData' = t.value
       /\ posted' = Append(posted, CreateReviewCall(t.value))
  /\ calls' = Append(calls, "createReview")
  /\ pc' = "awaitPost"
  /\ UNCHANGED <<apiKey, githubToken, prDiff, parseVars, numberedDiff,
                 prompt, failed, thrown>>

NextComment == CommentPosts \/ PostFails \/ PostSucceeds

SpecComment == InitComment /\ [][NextComment]_vars

(***************************************************************************)
(* createPrompt on the numbered text of a diff of one file and one hunk    *)
(* with at most MaxPromptLines content lines, some of them long enough     *)
(* that two of them pass diffLimit.                                        *)
(***************************************************************************)
AddedHuge == <<"+">> \o [i \in 1..(diffLimit \div 2) |-> "w"]

PromptLines == {AddedX, ContextY, RemovedZ, AddedHuge}

PromptDiffs ==
  {Join(<<HeaderF, Chunk1>> \o ls, NL) :
     ls \in UNION {[1..n -> PromptLines] : n \in 1..MaxPromptLines}}

InitPrompt ==
  /\ pc = "parsed"
  /\ prDiff \in PromptDiffs
  /\ lines = Split(prDiff, NL)
  /\ idx = Len(lines) + 1
  /\ currentFile = ParseAll(lines).currentFile
  /\ currentLine = ParseAll(lines).currentLine
  /\ numberedContent = ParseAll(lines).numberedContent
  /\ emittedAt = ParseAll(lines).emittedAt
  /\ numberedDiff = NumberedText(numberedContent)
  /\ apiKey = Str(<<"k">>)
  /\ githubToken = Str(<<"t">>)
  /\ prompt = Undefined
  /\ responseText = Undefined
  /\ reviewData = Undefined
  /\ calls = <<"pulls.get">>
  /\ posted = <<>>
  /\ failed = 0
  /\ thrown = <<>>

BuildPrompt ==
  /\ pc = "parsed"
  /\ \E rules \in RuleTexts : prompt' = CreatePrompt(rules, numberedDiff)
  /\ pc' = "prompted"
  /\ UNCHANGED <<apiKey, githubToken, prDiff, parseVars, numberedDiff,
                 responseText, reviewData, calls, posted, failed, thrown>>

NextPrompt == BuildPrompt

SpecPrompt == InitPrompt /\ [][NextPrompt]_vars

(***************************************************************************)
(* Vocabulary of the properties of the parser: what a unified diff says,   *)
(* read off the input text independently of the parser's own scanning.     *)
(***************************************************************************)
RECURSIVE UpToComma(_, _)
UpToComma(s, k) ==
  IF k > Len(s) \/ s[k] = "," THEN <<>> ELSE <<s[k]>> \o UpToComma(s, k + 1)

\* A hunk header "@@ -a,b +c,d @@": its third blank-separated field is the
\* new-side range.
HunkHeaderLine(line) ==
  LET f == Split(line, " ")
  IN /\ Len(f) >= 3
     /\ f[1] = <<"@", "@">>
     /\ StartsWith(f[3], <<"+">>)

NewSideStart(line) == ParseInt(UpToComma(Split(line, " ")[3], 2))

\* A file header "diff --git OLD NEW", OLD and NEW of equal length: the
\* new-side path is NEW without its "b/" prefix.
NewSidePath(line) ==
  LET rest == Substring(line, Len(DiffGit) + 1)
      half == (Len(rest) - 1) \div 2
      new == SubSeq(rest, half + 2, Len(rest))
  IN IF StartsWith(new, <<"b", "/">>) THEN Substring(new, 2) ELSE new

Max(S) == CHOOSE m \in S : \A n \in S : n <= m

HunkHeadersBefore(j) == {h \in 1..(j - 1) : HunkHeaderLine(lines[h])}

FileHeadersBefore(j) == {h \in 1..(j - 1) : StartsWith(lines[h], DiffGit)}

\* Line j lies inside a hunk: a hunk header precedes it, after the last
\* file header.
InHunk(j) ==
  /\ HunkHeadersBefore(j) # {}
  /\ FileHeadersBefore(j) # {}
  /\ Max(FileHeadersBefore(j)) < Max(HunkHeadersBefore(j))

\* Entries pushed after input line h and before entry k.
PushedSince(h, k) == Cardinality({m \in 1..(k - 1) : emittedAt[m] > h})

Entries == 1..Len(numberedContent)

\* C1: every emitted entry's line number is the new-side start of the most
\* recent hunk header plus the number of entries emitted since that header
\* (so the first entry after a header carries the header's start).
Thm_C1_LineNumberFromHunk ==
  \A k \in Entries :
    LET hs == HunkHeadersBefore(emittedAt[k])
    IN hs # {} =>
         numberedContent[k].lineNumber =
           NewSideStart(lines[Max(hs)]) + PushedSince(Max(hs), k)

\* C1 witness: parsing is over and some entry is the second or later one
\* of a hunk whose header starts the new side at 12.
Wit_C1_SecondEntryOfHunk ==
  /\ pc = "parsed"
  /\ \E k \in Entries :
       LET hs == HunkHeadersBefore(emittedAt[k])
       IN /\ InHunk(emittedAt[k])
          /\ NewSideStart(lines[Max(hs)]) = 12
          /\ PushedSince(Max(hs), k) >= 1
          /\ numberedContent[k].lineNumber = 13

\* C2 (as claimed): every line inside a hunk that begins with '+' gets
\* exactly one entry at the current counter, which then advances by one.
Cex_C2_EveryPlusLineEmitted ==
  [][(/\ pc = "parse" /\ idx <= Len(lines)
      /\ currentFile # <<>>
      /\ InHunk(idx)
      /\ StartsWith(lines[idx], <<"+">>))
     => (/\ numberedContent' =
              Append(numberedContent,
                     [file |-> currentFile, lineNumber |-> currentLine,
                      content |-> Tail(lines[idx])])
         /\ currentLine' = currentLine + 1)]_vars

WithoutRemoved(ls) == SelectSeq(ls, LAMBDA l : ~StartsWith(l, <<"-">>))

\* C3: a step over a removed line ('-' first) emits nothing and leaves the
\* counter, the current file and the entries as they were; and the parse
\* of a diff numbers its entries as the parse of the same diff with the
\* removed lines taken out.
Thm_C3_RemovedLineIsNoOp ==
  /\ [][(/\ pc = "parse" /\ idx <= Len(lines)
         /\ StartsWith(lines[idx], <<"-">>))
        => (/\ numberedContent' = numberedContent
            /\ currentLine' = currentLine
            /\ currentFile' = currentFile)]_vars
  /\ [](pc = "parsed" =>
          numberedContent = ParseAll(WithoutRemoved(lines)).numberedContent)

\* C3 witness: a removed line inside a hunk was stepped over and the line
\* after it was emitted with the number the hunk header gives.
Wit_C3_EntryAfterRemovedLine ==
  /\ pc = "parsed"
  /\ \E k \in Entries :
       /\ InHunk(emittedAt[k] - 1)
       /\ StartsWith(lines[emittedAt[k] - 1], <<"-">>)
       /\ numberedContent[k].lineNumber =
            NewSideStart(lines[Max(HunkHeadersBefore(emittedAt[k]))])

\* C4 (as claimed): every entry carries the new-side path of the most
\* recent file header, whatever the header's paths look like.
Cex_C4_FileOfLatestHeader ==
  \A k \in Entries :
    LET hs == FileHeadersBefore(emittedAt[k])
    IN hs # {} => numberedContent[k].file = NewSidePath(lines[Max(hs)])

\* C5: no entry comes from a line before the first file header, and a diff
\* without any file header yields the empty text.
Thm_C5_NothingBeforeFirstHeader ==
  /\ \A k \in Entries : FileHeadersBefore(emittedAt[k]) # {}
  /\ (pc = "parsed" /\ FileHeadersBefore(Len(lines) + 1) = {})
       => (numberedContent = <<>> /\ numberedDiff = <<>>)

\* C5 witness: a diff of hunk header, added and context lines and no file
\* header was parsed to the end.
Wit_C5_HeaderlessDiffParsed ==
  /\ pc = "parsed"
  /\ FileHeadersBefore(Len(lines) + 1) = {}
  /\ \E a, b, c \in 1..Len(lines) :
       /\ lines[a] = Chunk1 /\ a < b /\ a < c
       /\ lines[b] = AddedX /\ lines[c] = ContextY
  /\ numberedDiff = <<>>

(***************************************************************************)
(* Vocabulary of the properties of run.                                    *)
(***************************************************************************)
Thrown(what) == \E n \in 1..Len(thrown) : thrown[n] = what

\* The response shape the reviewer is asked for: a list of findings with
\* path, line, comment and snippet, and a conclusion of the enumeration.
WellFormedFinding(r) ==
  /\ r.type = "object"
  /\ r.path.type = "string"
  /\ r.line.type = "number"
  /\ r.comment.type = "string"
  /\ r.snippet.type = "string"

WellFormed(v) ==
  /\ v.type = "object"
  /\ v.reviews.type = "array"
  /\ \A k \in 1..Len(v.reviews.val) : WellFormedFinding(v.reviews.val[k])
  /\ v.conclusion \in {Str(Approve), Str(Comment), Str(RequestChanges)}

\* C6 (as claimed): every comment handed to createReview has the file and
\* line number of some entry the parser emitted for the diff of this run.
Cex_C6_PostedCommentsAreParsedLines ==
  \A p \in 1..Len(posted) :
    \A c \in 1..Len(posted[p].comments) :
      \E k \in Entries :
        /\ Str(numberedContent[k].file) = posted[p].comments[c].path
        /\ Num(numberedContent[k].lineNumber) = posted[p].comments[c].line

\* C7 (as claimed): when the reviewer call itself throws, setFailed is
\* never called.
Cex_C7_ReviewerErrorNeverBlocks ==
  Thrown("generateContent") => failed = 0

\* C8 (as claimed): a response that is valid JSON of another shape than the
\* expected one posts no review, raises no error and does not end the run
\* with setFailed.
Cex_C8_WrongShapeIsNoFindings ==
  (pc = "done" /\ reviewData # Undefined /\ ~WellFormed(reviewData))
    => (posted = <<>> /\ thrown = <<>> /\ failed = 0)

\* C9: when the response text is not JSON the run is over with setFailed
\* never called, nothing thrown but the caught parse error, and no call
\* made after the reviewer's.
Thm_C9_JsonParseErrorIsBenign ==
  (responseText # Undefined /\ ~responseText.json)
    => /\ pc = "done"
       /\ failed = 0
       /\ thrown = <<"SyntaxError">>
       /\ posted = <<>>
       /\ calls = <<"pulls.get", "generateContent">>

\* C9 witness: a run that parsed entries out of its diff ended on a
\* response that is not JSON.
Wit_C9_GarbageResponseDone ==
  /\ pc = "done"
  /\ responseText # Undefined /\ ~responseText.json
  /\ numberedContent # <<>>

\* C10: with either credential absent the run is over right away, with
\* setFailed called once and no external call made.
Thm_C10_MissingCredentialsNoCalls ==
  (pc # "start" /\ ~(Truthy(apiKey) /\ Truthy(githubToken)))
    => /\ pc = "done"
       /\ failed = 1
       /\ calls = <<>>
       /\ posted = <<>>
       /\ prDiff = <<>>
       /\ responseText = Undefined

\* C10 witness: a run with the API key and without the token has ended in
\* failure.
Wit_C10_TokenMissingFailed ==
  /\ pc = "done"
  /\ Truthy(apiKey) /\ githubToken = Undefined
  /\ failed = 1

\* C11: when the diff that pulls.get answered is empty, the run is over
\* with the reviewer never called, no review posted, nothing thrown and
\* setFailed never called.
Thm_C11_EmptyDiffIsBenign ==
  (pc \notin {"start", "awaitDiff"} /\ calls # <<>>
     /\ ~Thrown("pulls.get") /\ prDiff = <<>>)
    => /\ pc = "done"
       /\ calls = <<"pulls.get">>
       /\ posted = <<>>
       /\ thrown = <<>>
       /\ failed = 0
       /\ prompt = Undefined
       /\ responseText = Undefined

\* C11 witness: a run with both credentials fetched an empty diff and is
\* over.
Wit_C11_EmptyDiffDone ==
  /\ pc = "done"
  /\ Truthy(apiKey) /\ Truthy(githubToken)
  /\ calls = <<"pulls.get">>
  /\ thrown = <<>>
  /\ prDiff = <<>>

\* C12: when createReview throws, the run is over with setFailed called:
\* the error of the posting call never ends in a benign completion.
Thm_C12_PostingFailureBlocks ==
  Thrown("createReview")
    => /\ pc = "done"
       /\ failed = 1
       /\ calls = <<"pulls.get", "generateContent", "createReview">>

\* C12 witness: the posting call of a review whose conclusion is APPROVE
\* threw, and the run is over.
Wit_C12_ApprovePostThrew ==
  /\ pc = "done"
  /\ thrown = <<"createReview">>
  /\ reviewData # Undefined
  /\ ConclusionOf(reviewData) = Str(Approve)
  /\ Len(posted) = 1

\* No finding of a well-formed response has a line above 0: the list of
\* comments to post is empty.
NoPostableFinding(v) ==
  \A k \in 1..Len(v.reviews.val) : v.reviews.val[k].line.val <= 0

\* C13 (as claimed): when a well-formed response leaves no comment to
\* post, createReview is not called and the run ends without setFailed,
\* whatever the conclusion.
Cex_C13_NothingToPostIsSuccess ==
  (pc = "done" /\ reviewData # Undefined /\ WellFormed(reviewData)
     /\ NoPostableFinding(reviewData))
    => /\ posted = <<>>
       /\ calls = <<"pulls.get", "generateContent">>
       /\ failed = 0

\* C14 (as claimed): a review posted with at least one comment for a
\* well-formed response has the event COMMENT or REQUEST_CHANGES, never
\* APPROVE.
Cex_C14_PostedEventNeverApprove ==
  (reviewData # Undefined /\ WellFormed(reviewData))
    => \A p \in 1..Len(posted) :
         Len(posted[p].comments) >= 1
           => posted[p].event \in {Str(Comment), Str(RequestChanges)}

\* The number of setFailed calls of a run that reaches the conclusion test
\* with the response v.
SignalOf(v) == FailedAfterConclusion(v, 0)

\* C15 (as claimed): a run that ended without an error on a well-formed
\* response has the signal that the run on the same response with any
\* other conclusion ends with.
Cex_C15_SignalIgnoresConclusion ==
  (pc = "done" /\ reviewData # Undefined /\ WellFormed(reviewData)
     /\ thrown = <<>>)
    => \A c \in {Str(Approve), Str(Comment), Str(RequestChanges)} :
         failed = SignalOf([reviewData EXCEPT !.conclusion = c])

\* C16 (as claimed): once a run on a non-empty diff is over, every added
\* line whose content is longer than the limit has a comment at its file
\* and line among the comments the run posted, whatever the reviewer did.
Cex_C16_LongLineAlwaysCommented ==
  (pc = "done" /\ prDiff # <<>>)
    => \A k \in Entries :
         (/\ StartsWith(lines[emittedAt[k]], <<"+">>)
          /\ Len(numberedContent[k].content) > MaxLineLength)
           => \E p \in 1..Len(posted) :
                \E c \in 1..Len(posted[p].comments) :
                  /\ posted[p].comments[c].path
                       = Str(numberedContent[k].file)
                  /\ posted[p].comments[c].line
                       = Num(numberedContent[k].lineNumber)

MarkerLine(l) ==
  /\ ~StartsWith(l, DiffGit) /\ ~StartsWith(l, <<"@", "@">>)
  /\ ~StartsWith(l, <<"+">>) /\ ~StartsWith(l, <<" ">>)
  /\ ~StartsWith(l, <<"-">>)

\* Lines a..b of the input are a file section without a hunk: a file
\* header, marker lines only, and then the next file header or the end.
HunklessSection(a, b) ==
  /\ StartsWith(lines[a], DiffGit)
  /\ \A j \in (a + 1)..b : MarkerLine(lines[j])
  /\ b = Len(lines) \/ StartsWith(lines[b + 1], DiffGit)

WithoutSection(a, b) ==
  SubSeq(lines, 1, a - 1) \o SubSeq(lines, b + 1, Len(lines))

\* Entry k is numbered by a counter that no hunk header has set since the
\* latest file header, while a hunk header before that file header did.
NumberedByLeftover(k) ==
  /\ FileHeadersBefore(emittedAt[k]) # {}
  /\ \E h \in HunkHeadersBefore(emittedAt[k]) :
       h < Max(FileHeadersBefore(emittedAt[k]))
  /\ \A h \in HunkHeadersBefore(emittedAt[k]) :
       h < Max(FileHeadersBefore(emittedAt[k]))

\* C18 (as claimed): once the text is parsed, a file section without a
\* hunk has no entry of its own and the entries are those of the text
\* without that section; and no entry is numbered by the counter an
\* earlier file left.
Cex_C18_HunklessSectionIsInert ==
  pc = "parsed"
    => /\ \A a \in 1..Len(lines) : \A b \in a..Len(lines) :
            HunklessSection(a, b)
              => /\ \A k \in Entries : emittedAt[k] \notin a..b
                 /\ numberedContent
                      = ParseAll(WithoutSection(a, b)).numberedContent
       /\ \A k \in Entries : ~NumberedByLeftover(k)

\* C19 (as claimed): every entry the parser has emitted, on any text, has
\* a line number of at least 1.
Cex_C19_LineNumberAtLeastOne ==
  \A k \in Entries : numberedContent[k].lineNumber >= 1

\* Markdown code spans: a run of n backticks opens a span that the next
\* run of exactly n backticks closes; a run without such a closer is
\* literal text.
BacktickRun(s, k) ==
  LET ends == {j \in k..(Len(s) + 1) : j = Len(s) + 1 \/ s[j] # Backtick}
  IN (CHOOSE m \in ends : \A n \in ends : m <= n) - k

CloserOf(s, k, n) ==
  LET runs == {j \in (k + n)..Len(s) :
                 /\ s[j] = Backtick /\ s[j - 1] # Backtick
                 /\ BacktickRun(s, j) = n}
  IN IF runs = {} THEN 0 ELSE CHOOSE m \in runs : \A j \in runs : m <= j

\* The positions of s from k on that lie inside a code span.
RECURSIVE InCodeSpan(_, _)
InCodeSpan(s, k) ==
  IF k > Len(s) THEN {}
  ELSE IF s[k] # Backtick THEN InCodeSpan(s, k + 1)
  ELSE LET n == BacktickRun(s, k)
           c == CloserOf(s, k, n)
       IN IF c = 0 THEN InCodeSpan(s, k + n)
          ELSE ((k + n)..(c - 1)) \cup InCodeSpan(s, c + n)

\* What follows the explanation in a comment body: a blank line and the
\* snippet in a fenced block.
FencedSnippet(snippet) ==
  <<NL, NL>> \o Fence \o TypeScript \o <<NL>> \o snippet \o <<NL>> \o Fence

EndsWith(s, t) ==
  Len(s) >= Len(t) /\ SubSeq(s, Len(s) - Len(t) + 1, Len(s)) = t

\* Every reserved token of the text e lies inside a code span of e.
TokensInCodeSpans(e) ==
  \A k \in 1..Len(e) :
    KeywordAt(e, k) # 0
      => k..(k + Len(Keywords[KeywordAt(e, k)])) \subseteq InCodeSpan(e, 1)

\* C20 (as claimed): the body of every posted comment is the heading, the
\* explanation with each reserved token inside a code span, and the
\* finding's snippet unmodified in the fenced block.
Cex_C20_ReservedTokensInCodeSpans ==
  \A p \in 1..Len(posted) :
    \A c \in 1..Len(posted[p].comments) :
      \E r \in 1..Len(reviewData.reviews.val) :
        LET body == posted[p].comments[c].body
            tail == FencedSnippet(reviewData.reviews.val[r].snippet.val)
        IN /\ StartsWith(body, BodyPrefix)
           /\ EndsWith(body, tail)
           /\ TokensInCodeSpans(
                SubSeq(body, Len(BodyPrefix) + 1, Len(body) - Len(tail)))

\* C21: the code section of the prompt is the first min(L, diffLimit)
\* characters of the numbered text, and the numbered text is the entries
\* in the order of the diff lines they came from, joined by newlines.
Thm_C21_PromptKeepsPrefix ==
  pc = "prompted"
    => /\ prompt.code
            = SubSeq(numberedDiff, 1,
                     IF Len(numberedDiff) < diffLimit
                     THEN Len(numberedDiff) ELSE diffLimit)
       /\ numberedDiff = Join([k \in Entries |-> Render(numberedContent[k])],
                              NL)
       /\ \A k \in Entries : \A m \in Entries :
            k < m => emittedAt[k] < emittedAt[m]

\* C21 witness: a prompt was built from a numbered text of three entries
\* that is longer than diffLimit, and its code section is cut in the
\* second entry.
Wit_C21_TruncatedPrompt ==
  /\ pc = "prompted"
  /\ Len(numberedContent) = 3
  /\ Len(numberedDiff) > diffLimit
  /\ Len(prompt.code) = diffLimit
  /\ Len(Render(numberedContent[1])) < diffLimit
  /\ Len(Render(numberedContent[1])) + 1 + Len(Render(numberedContent[2]))
       > diffLimit

\* The external calls of a run in the order of the code.
CallOrder == <<"pulls.get", "generateContent", "createReview">>

\* C22: the calls made so far are a prefix of CallOrder, so each is made
\* at most once and in that order; a call is outstanding only while no
\* later one has started; the reviewer is called on a fetched diff and
\* createReview on a parsed response; and once an error was thrown no
\* further call is made.
Thm_C22_CallsInOrderOnce ==
  /\ [](/\ Len(calls) <= Len(CallOrder)
        /\ calls = SubSeq(CallOrder, 1, Len(calls))
        /\ pc = "awaitDiff" => Len(calls) = 1
        /\ pc = "awaitModel" => Len(calls) = 2 /\ prDiff # <<>>
        /\ pc = "awaitPost" => Len(calls) = 3
        /\ Len(calls) = 3 => (reviewData # Undefined /\ responseText.json))
  /\ [][thrown # <<>> => calls' = calls]_vars

\* C22 witness: a run made the three calls and is over without an error.
Wit_C22_ThreeCallsDone ==
  /\ pc = "done"
  /\ calls = CallOrder
  /\ thrown = <<>>

\* The positions of run: before the credentials test, at one of its three
\* awaits, or returned.
RunPositions == {"start", "awaitDiff", "awaitModel", "awaitPost", "done"}

\* How many awaits a run at position p may still have before it.
StepsLeft(p) ==
  CASE p = "start" -> 4
    [] p = "awaitDiff" -> 3
    [] p = "awaitModel" -> 2
    [] p = "awaitPost" -> 1
    [] p = "done" -> 0
    [] OTHER -> 5

\* C23: a run is never anywhere but at one of its positions, so no error
\* leaves it; setFailed is called at most once; every error thrown but
\* the caught parse error ends in setFailed; and the run returns, because
\* until it has it can always take a step, whatever the settled call
\* brings, and every step brings it nearer to its end.
Thm_C23_RunEndsInOneOutcome ==
  /\ [](/\ pc \in RunPositions
        /\ failed \in {0, 1}
        /\ thrown # <<>>
             => /\ pc = "done"
                /\ Len(thrown) = 1
                /\ (failed = 1 \/ thrown = <<"SyntaxError">>)
        /\ pc # "done" => ENABLED Next)
  /\ [][StepsLeft(pc') < StepsLeft(pc)]_vars

\* C23 witness: a run whose posting call threw after a response with the
\* conclusion REQUEST_CHANGES is over with setFailed called once.
Wit_C23_ThrownAfterRequestChanges ==
  /\ pc = "done"
  /\ thrown = <<"createReview">>
  /\ ConclusionOf(reviewData) = Str(RequestChanges)
  /\ failed = 1

\* C24: when createReview has returned and the run is over, setFailed was
\* called if and only if the event of the posted review is
\* REQUEST_CHANGES.
Thm_C24_SignalMatchesPostedEvent ==
  (pc = "done" /\ posted # <<>> /\ ~Thrown("createReview"))
    => /\ Len(posted) = 1
       /\ failed = 1 <=> posted[1].event = Str(RequestChanges)

\* C24 witness: a review was posted with the event COMMENT and the run is
\* over without setFailed.
Wit_C24_CommentPostedBenign ==
  /\ pc = "done"
  /\ Len(posted) = 1
  /\ posted[1].event = Str(Comment)
  /\ thrown = <<>>
  /\ failed = 0

\* The findings of a well-formed response whose line is above 0, in the
\* reviewer's order.
PositiveFindings(v) == SelectSeq(v.reviews.val, LAMBDA r : r.line.val > 0)

\* C25: for a well-formed response, createReview is called if and only if
\* some finding has a line above 0, and its comments are those findings,
\* one comment each, in the reviewer's order, with the finding's path and
\* line.
Thm_C25_CommentsAreFindingsAboveZero ==
  (reviewData # Undefined /\ WellFormed(reviewData))
    => IF Len(PositiveFindings(reviewData)) = 0
       THEN posted = <<>> /\ calls = <<"pulls.get", "generateContent">>
       ELSE /\ Len(posted) = 1
            /\ calls = CallOrder
            /\ Len(posted[1].comments) = Len(PositiveFindings(reviewData))
            /\ \A i \in 1..Len(posted[1].comments) :
                 /\ posted[1].comments[i].path
                      = PositiveFindings(reviewData)[i].path
                 /\ posted[1].comments[i].line
                      = PositiveFindings(reviewData)[i].line

\* C25 witness: of two findings, the first at line 0 and the second at
\* line 7, the second alone was posted.
Wit_C25_LineZeroDropped ==
  /\ reviewData # Undefined /\ WellFormed(reviewData)
  /\ Len(reviewData.reviews.val) = 2
  /\ reviewData.reviews.val[1].line = Num(0)
  /\ reviewData.reviews.val[2].line = Num(7)
  /\ Len(posted) = 1
  /\ Len(posted[1].comments) = 1
  /\ posted[1].comments[1].line = Num(7)

\* Every reserved token of the text s has exactly one backtick on each
\* side.
SinglyEnclosed(s) ==
  \A k \in 1..Len(s) :
    KeywordAt(s, k) # 0
      => LET after == k + Len(Keywords[KeywordAt(s, k)]) + 1
         IN /\ k > 1 /\ s[k - 1] = Backtick
            /\ (k > 2 => s[k - 2] # Backtick)
            /\ after <= Len(s) /\ s[after] = Backtick
            /\ (after < Len(s) => s[after + 1] # Backtick)

\* C26 (as claimed): the explanation in the body of a posted comment is
\* left unchanged by sanitizing it again, and when every token of the
\* reviewer's comment had one pair of backticks, every token of the
\* explanation has one pair.
Cex_C26_SanitizingIsIdempotent ==
  \A p \in 1..Len(posted) :
    \A c \in 1..Len(posted[p].comments) :
      \E r \in 1..Len(reviewData.reviews.val) :
        LET body == posted[p].comments[c].body
            tail == FencedSnippet(reviewData.reviews.val[r].snippet.val)
            said == reviewData.reviews.val[r].comment.val
            e == SubSeq(body, Len(BodyPrefix) + 1, Len(body) - Len(tail))
        IN /\ e = SafeComment(said)
           /\ SafeComment(e) = e
           /\ SinglyEnclosed(said) => SinglyEnclosed(e)

====
